---- MODULE Spec2Model ----
(***************************************************************************)
(* Model of the serial rescue session of opentitanlib                      *)
(* (sw/host/opentitanlib/src/rescue/serial.rs).                            *)
(*                                                                         *)
(* The host side (RescueSerial) is a sequential program; pc is its         *)
(* position.  Every call it makes on the UART, on the target reset and on  *)
(* the pattern waiter is one step.  The device is the environment: it      *)
(* answers the commands it receives with a response of its choice, which   *)
(* may be lost on the line.                                                *)
(*                                                                         *)
(* Text is modelled as sequences of byte values.                           *)
(***************************************************************************)
EXTENDS Integers, Sequences, FiniteSets, TLC

VARIABLES
    pc,        \* position of the host inside the running operation
    op,        \* the running (or last finished) operation and its arguments
    brk,       \* break condition on the UART
    hostBaud,  \* baud rate of the host UART
    devBaud,   \* baud rate of the device UART
    devPend,   \* command the device has received and not answered yet
    rx,        \* bytes the device sent that the host has not read yet
    trace,     \* calls made by the running operation, in order
    res,       \* result of the last finished operation
    baud0,     \* host baud rate when the running operation was called
    dev0,      \* device baud rate when the running operation was called
    data       \* payload of the running send, or buffer of the running recv

vars ==
    <<pc, op, brk, hostBaud, devBaud, devPend, rx, trace, res, baud0, dev0, data>>

----------------------------------------------------------------------------
(* Bounds of the model *)

\* most bytes the device may have in flight to the host
MaxRx == 28

----------------------------------------------------------------------------
(* Bytes and text *)

CR == 13
LF == 10
Colon == 58
Dot == 46

S_mode == <<109, 111, 100, 101, 58, 32>>                 \* "mode: "
S_ok == <<111, 107>>                                     \* "ok"
S_error == <<101, 114, 114, 111, 114>>                   \* "error"
S_rescue == <<114, 101, 115, 99, 117, 101, 58>>          \* "rescue:"
S_unsupported ==                                         \* "Unsupported badrate "
    <<85, 110, 115, 117, 112, 112, 111, 114, 116, 101, 100, 32,
      98, 97, 100, 114, 97, 116, 101, 32>>

\* u32::from_be_bytes
from_be_bytes(b) == b[1] * 16777216 + b[2] * 65536 + b[3] * 256 + b[4]

\* the bytes in little-endian order, as u32::to_le_bytes would give them
to_le_bytes(v) ==
    << v % 256, (v \div 256) % 256, (v \div 65536) % 256, (v \div 16777216) % 256 >>

\* u32::to_be_bytes
to_be_bytes(v) ==
    << (v \div 16777216) % 256, (v \div 65536) % 256, (v \div 256) % 256, v % 256 >>

REBOOT == from_be_bytes(<<82, 69, 66, 79>>)              \* b"REBO"
BAUD == from_be_bytes(<<66, 65, 85, 68>>)                \* b"BAUD"
WAIT == from_be_bytes(<<87, 65, 73, 84>>)                \* b"WAIT"

BAUD_115K == <<49, 49, 53, 75>>                          \* b"115K"
BAUD_230K == <<50, 51, 48, 75>>                          \* b"230K"
BAUD_460K == <<52, 54, 48, 75>>                          \* b"460K"
BAUD_921K == <<57, 50, 49, 75>>                          \* b"921K"
BAUD_1M33 == <<49, 77, 51, 51>>                          \* b"1M33"
BAUD_1M50 == <<49, 77, 53, 48>>                          \* b"1M50"

ONE_SECOND == 1000                                       \* milliseconds
reset_delay == 50                                        \* milliseconds
enter_delay == 5000                                      \* milliseconds

\* the match with a `_` arm that falls back to the lowest rate
SymbolOf_DefaultArm(baud) ==
    CASE baud = 115200 -> BAUD_115K
      [] baud = 230400 -> BAUD_230K
      [] baud = 460800 -> BAUD_460K
      [] baud = 921600 -> BAUD_921K
      [] baud = 1333333 -> BAUD_1M33
      [] baud = 1500000 -> BAUD_1M50
      [] OTHER -> BAUD_115K

\* the match with the symbol of 1500000 pasted into the arm of 1333333
SymbolOf_PastedArm(baud) ==
    CASE baud = 115200 -> BAUD_115K
      [] baud = 230400 -> BAUD_230K
      [] baud = 460800 -> BAUD_460K
      [] baud = 921600 -> BAUD_921K
      [] baud = 1333333 -> BAUD_1M50
      [] baud = 1500000 -> BAUD_1M50
      [] OTHER -> <<>>

\* The match of set_speed: the symbol of a rate, <<>> for the `_` arm.
SymbolOf(baud) ==
    CASE baud = 115200 -> BAUD_115K
      [] baud = 230400 -> BAUD_230K
      [] baud = 460800 -> BAUD_460K
      [] baud = 921600 -> BAUD_921K
      [] baud = 1333333 -> BAUD_1M33
      [] baud = 1500000 -> BAUD_1M50
      [] OTHER -> <<>>

\* format!("{baud}"): the decimal digits of a u32
RECURSIVE Decimal(_)
Decimal(n) ==
    IF n < 10 THEN <<48 + n>> ELSE Decimal(n \div 10) \o <<48 + (n % 10)>>

\* format!("Unsupported badrate {baud}")
UnsupportedMsg(baud) == S_unsupported \o Decimal(baud)

\* std::str::from_utf8 on the bytes b, from index i on: TRUE iff well formed.
Cont(b, i) == i <= Len(b) /\ b[i] >= 128 /\ b[i] <= 191
RECURSIVE Utf8From(_, _)
Utf8From(b, i) ==
    IF i > Len(b) THEN TRUE
    ELSE IF b[i] < 128 THEN Utf8From(b, i + 1)
    ELSE IF b[i] >= 194 /\ b[i] <= 223
        THEN Cont(b, i + 1) /\ Utf8From(b, i + 2)
    ELSE IF b[i] = 224
        THEN i + 1 <= Len(b) /\ b[i + 1] >= 160 /\ b[i + 1] <= 191
             /\ Cont(b, i + 2) /\ Utf8From(b, i + 3)
    ELSE IF b[i] = 237
        THEN i + 1 <= Len(b) /\ b[i + 1] >= 128 /\ b[i + 1] <= 159
             /\ Cont(b, i + 2) /\ Utf8From(b, i + 3)
    ELSE IF b[i] >= 225 /\ b[i] <= 239
        THEN Cont(b, i + 1) /\ Cont(b, i + 2) /\ Utf8From(b, i + 3)
    ELSE FALSE   \* 0x80..0xC1, 0xF0.. : no 4-byte tag can hold a 4-byte
                 \* scalar after a first byte below 0x80, and a tag is 4 bytes
from_utf8_ok(b) == Utf8From(b, 1)

----------------------------------------------------------------------------
(* The regular expressions of the source, matched against received bytes *)

\* s[i..i+Len(lit)-1] = lit
LitAt(s, i, lit) ==
    /\ i >= 1
    /\ i + Len(lit) - 1 <= Len(s)
    /\ SubSeq(s, i, i + Len(lit) - 1) = lit

\* index of the first line feed of s at or after i, 0 if none
RECURSIVE FirstLF(_, _)
FirstLF(s, i) ==
    IF i > Len(s) THEN 0
    ELSE IF s[i] = LF THEN i
    ELSE FirstLF(s, i + 1)

\* `.*\r\n` from index i: `.` matches every byte but the line feed, so the
\* match ends at the first line feed, which a carriage return must precede.
\* The index of the last matched byte, 0 if no match.
RestOfLineAt(s, i) ==
    LET lf == FirstLF(s, i)
    IN  IF lf # 0 /\ lf - 1 >= i /\ s[lf - 1] = CR THEN lf ELSE 0

\* `(ok|error):.*\r\n` anchored at index i:
\* [e |-> index of the last matched byte or 0, g1 |-> the captured group]
StatusAt(s, i) ==
    IF LitAt(s, i, S_ok \o <<Colon>>)
        THEN [e |-> RestOfLineAt(s, i + 3), g1 |-> S_ok]
    ELSE IF LitAt(s, i, S_error \o <<Colon>>)
        THEN [e |-> RestOfLineAt(s, i + 6), g1 |-> S_error]
    ELSE [e |-> 0, g1 |-> <<>>]

\* `rescue:.*\r\n` anchored at index i
BannerAt(s, i) ==
    IF LitAt(s, i, S_rescue)
        THEN [e |-> RestOfLineAt(s, i + 7), g1 |-> <<>>]
    ELSE [e |-> 0, g1 |-> <<>>]

\* One byte of the tag text inside the pattern: the text is pasted into the
\* pattern unescaped, so a `.` stands for any byte but the line feed.
\* (The tags of the model hold no other metacharacter.)
TagByteMatches(p, c) == IF p = Dot THEN c # LF ELSE p = c

\* format!("mode: {mode}\r\n(ok|error):.*\r\n") anchored at index i
ModeAt(s, i, tag) ==
    IF /\ LitAt(s, i, S_mode)
       /\ i + 11 <= Len(s)
       /\ \A k \in 1..4 : TagByteMatches(tag[k], s[i + 5 + k])
       /\ s[i + 10] = CR
       /\ s[i + 11] = LF
        THEN StatusAt(s, i + 12)
    ELSE [e |-> 0, g1 |-> <<>>]

\* The patterns a wait can be given
PatBanner == [k |-> "banner", tag |-> <<>>]
PatStatus == [k |-> "status", tag |-> <<>>]
PatMode(tag) == [k |-> "mode", tag |-> tag]

PatAt(pat, s, i) ==
    CASE pat.k = "banner" -> BannerAt(s, i)
      [] pat.k = "status" -> StatusAt(s, i)
      [] pat.k = "mode" -> ModeAt(s, i, pat.tag)

\* Leftmost match of the pattern in s:
\* [found, e |-> index of the last matched byte, groups |-> <<whole, group 1>>]
\* The source compares result[1] with "error": index 1 is the one group of
\* the pattern, (ok|error), and index 0 is the whole matched text.
RECURSIVE SearchFrom(_, _, _)
SearchFrom(pat, s, i) ==
    IF i > Len(s) THEN [found |-> FALSE, e |-> 0, groups |-> <<>>]
    ELSE IF PatAt(pat, s, i).e # 0
        THEN [found |-> TRUE, e |-> PatAt(pat, s, i).e,
              groups |-> <<SubSeq(s, i, PatAt(pat, s, i).e), PatAt(pat, s, i).g1>>]
    ELSE SearchFrom(pat, s, i + 1)

Search(pat, s) == SearchFrom(pat, s, 1)

----------------------------------------------------------------------------
(* Results and events *)

Ok == [kind |-> "Ok", payload |-> <<>>]
BadMode(text) == [kind |-> "BadMode", payload |-> text]
Timeout == [kind |-> "Timeout", payload |-> <<>>]
IoError == [kind |-> "Io", payload |-> <<>>]
Utf8Error == [kind |-> "Utf8", payload |-> <<>>]
NoResult == [kind |-> "none", payload |-> <<>>]

\* One call made by the running operation: what was called, with which
\* arguments, and what it returned.
NoPat == [k |-> "none", tag |-> <<>>]
Event(ev, arg, out) ==
    [ev |-> ev, arg |-> arg, out |-> out, pat |-> NoPat, groups |-> <<>>]

\* UartConsole::wait_for(uart, pattern, timeout) on the received bytes s:
\* the possible returns.  "match" when the pattern is found in what arrived
\* within the timeout, otherwise "timeout"; a read may also fail.
WaitOutcomes(pat, s) ==
    (IF Search(pat, s).found THEN {"match"} ELSE {"timeout"}) \cup {"io"}

\* what is left unread after the wait: the bytes after the match; nothing
\* after a timeout or a failed read
WaitRest(pat, s, out) ==
    CASE out = "match" -> SubSeq(s, Search(pat, s).e + 1, Len(s))
      [] out = "timeout" -> <<>>
      [] out = "io" -> <<>>

WaitEvent(pat, timeout, s, out) ==
    [ev |-> "wait_for", arg |-> <<timeout>>, out |-> out, pat |-> pat,
     groups |-> IF out = "match" THEN Search(pat, s).groups ELSE <<>>]

WaitError(out) == IF out = "timeout" THEN Timeout ELSE IoError

----------------------------------------------------------------------------
(* Inputs *)

SupportedRates == {115200, 230400, 460800, 921600, 1333333, 1500000}
Rates == SupportedRates \cup {0, 9600}

\* "B.UD" holds a pattern metacharacter; the last tag is not valid UTF-8
TagDot == from_be_bytes(<<66, 46, 85, 68>>)
TagBadText == from_be_bytes(<<65, 65, 65, 255>>)
Tags == {REBOOT, BAUD, WAIT, TagDot, TagBadText}

\* payloads of the bulk transfer: empty, one byte, two bytes
Payloads == {<<>>, <<7>>, <<7, 9>>}

\* diagnostic texts of the device: "", "bad"
Msgs == {<<>>, <<98, 97, 100>>}

NoOp == [name |-> "none", flag |-> FALSE, num |-> 0]
NoPend == [k |-> "none", b |-> <<>>]

\* the mode arguments with the tags of wait and reboot exchanged
ModeArg_Swapped ==
    CASE op.name = "set_speed" -> BAUD
      [] op.name = "wait" -> REBOOT
      [] op.name = "reboot" -> WAIT
      [] OTHER -> op.num

\* the mode argument of the set_mode call of the running operation
ModeArg ==
    CASE op.name = "set_speed" -> BAUD
      [] op.name = "wait" -> WAIT
      [] op.name = "reboot" -> REBOOT
      [] OTHER -> op.num

Init ==
    /\ pc = "idle"
    /\ op = NoOp
    /\ brk = FALSE
    /\ hostBaud = 115200
    /\ devBaud = 115200
    /\ devPend = NoPend
    /\ rx = <<>>
    /\ trace = <<>>
    /\ res = NoResult
    /\ baud0 = 115200
    /\ dev0 = 115200
    /\ data = <<>>

----------------------------------------------------------------------------
(* Calls: an operation starts when no other one runs *)

Begin(name, flag, num, first) ==
    /\ pc = "idle"
    /\ op' = [name |-> name, flag |-> flag, num |-> num]
    /\ pc' = first
    /\ trace' = <<>>
    /\ res' = NoResult
    /\ baud0' = hostBaud
    /\ dev0' = devBaud
    /\ data' = <<>>
    /\ UNCHANGED <<brk, hostBaud, devBaud, devPend, rx>>

\* the operation returns r to its caller
Return(r) ==
    /\ pc' = "idle"
    /\ res' = r

OutOf(ok) == IF ok THEN "ok" ELSE "err"

CallEnter(reset_target) == Begin("enter", reset_target, 0, "e_break")

CallSetMode(mode) == Begin("set_mode", FALSE, mode, "sm_write")

CallWait == Begin("wait", FALSE, 0, "sm_write")

CallReboot == Begin("reboot", FALSE, 0, "sm_write")

\* set_speed, up to the call of set_mode: the match on the rate
CallSetSpeed(baud) ==
    IF SymbolOf(baud) = <<>>
        THEN /\ pc = "idle"
             /\ op' = [name |-> "set_speed", flag |-> FALSE, num |-> baud]
             /\ trace' = <<>>
             /\ baud0' = hostBaud
             /\ dev0' = devBaud
             /\ data' = <<>>
             /\ Return(BadMode(UnsupportedMsg(baud)))
             /\ UNCHANGED <<brk, hostBaud, devBaud, devPend, rx>>
        ELSE Begin("set_speed", FALSE, baud, "sm_write")

----------------------------------------------------------------------------
(* set_mode *)

\* set_mode writing the tag again after a failed write
SetModeWriteTag_Retries ==
    /\ pc = "sm_write"
    /\ \E ok \in BOOLEAN :
        /\ trace' = Append(trace, Event("write", to_be_bytes(ModeArg), OutOf(ok)))
        /\ IF ok THEN pc' = "sm_cr" /\ res' = res
                 ELSE IF Len(trace) = 0 THEN pc' = pc /\ res' = res
                 ELSE Return(IoError)
    /\ UNCHANGED <<op, brk, hostBaud, devBaud, devPend, rx, baud0, dev0, data>>

\* set_mode going on to the carriage return after a failed write of the tag
SetModeWriteTag_IgnoresFailure ==
    /\ pc = "sm_write"
    /\ \E ok \in BOOLEAN :
        /\ trace' = Append(trace, Event("write", to_be_bytes(ModeArg), OutOf(ok)))
        /\ pc' = "sm_cr" /\ res' = res
    /\ UNCHANGED <<op, brk, hostBaud, devBaud, devPend, rx, baud0, dev0, data>>

\* set_mode releasing the break signal before it writes the tag
SetModeWriteTag_ClearsBreak ==
    /\ pc = "sm_write"
    /\ \E ok \in BOOLEAN :
        /\ trace' = Append(trace, Event("write", to_be_bytes(ModeArg), OutOf(ok)))
        /\ IF ok THEN pc' = "sm_cr" /\ res' = res
                 ELSE Return(IoError)
    /\ brk' = FALSE
    /\ UNCHANGED <<op, hostBaud, devBaud, devPend, rx, baud0, dev0, data>>

\* set_mode checking the tag with from_utf8 before it writes anything
SetModeWriteTag_ValidatesFirst ==
    /\ pc = "sm_write"
    /\ IF from_utf8_ok(to_be_bytes(ModeArg))
           THEN \E ok \in BOOLEAN :
                /\ trace' = Append(trace,
                                   Event("write", to_be_bytes(ModeArg), OutOf(ok)))
                /\ IF ok THEN pc' = "sm_cr" /\ res' = res
                         ELSE Return(IoError)
           ELSE /\ trace' = Append(trace,
                                   Event("from_utf8", to_be_bytes(ModeArg), "err"))
                /\ Return(Utf8Error)
    /\ UNCHANGED <<op, brk, hostBaud, devBaud, devPend, rx, baud0, dev0, data>>

\* self.uart.write(&mode)?
SetModeWriteTag ==
    /\ pc = "sm_write"
    /\ \E ok \in BOOLEAN :
        /\ trace' = Append(trace, Event("write", to_be_bytes(ModeArg), OutOf(ok)))
        /\ IF ok THEN pc' = "sm_cr" /\ res' = res
                 ELSE Return(IoError)
    /\ UNCHANGED <<op, brk, hostBaud, devBaud, devPend, rx, baud0, dev0, data>>

\* self.uart.write(from_ref(&enter))?; let mode = from_utf8(&mode)?
SetModeWriteEnter ==
    /\ pc = "sm_cr"
    /\ \E ok \in BOOLEAN :
        LET w == Event("write", <<CR>>, OutOf(ok))
            valid == from_utf8_ok(to_be_bytes(ModeArg))
        IN  IF ok
                THEN /\ devPend' = [k |-> "mode", b |-> to_be_bytes(ModeArg)]
                     /\ trace' = trace \o
                            <<w, Event("from_utf8", to_be_bytes(ModeArg), OutOf(valid))>>
                     /\ IF valid THEN pc' = "sm_wait" /\ res' = res
                                 ELSE Return(Utf8Error)
                ELSE /\ devPend' = devPend
                     /\ trace' = Append(trace, w)
                     /\ Return(IoError)
    /\ UNCHANGED <<op, brk, hostBaud, devBaud, rx, baud0, dev0, data>>

\* set_mode returns Ok: wait, reboot and a plain set_mode return Ok
\* themselves, set_speed goes on
SetModeOk ==
    IF op.name = "set_speed" THEN pc' = "ss_write" /\ res' = res
                             ELSE Return(Ok)

\* set_mode without the test of result[1]
SetModeWait_IgnoresError ==
    /\ pc = "sm_wait"
    /\ LET pat == PatMode(to_be_bytes(ModeArg))
       IN  \E out \in WaitOutcomes(pat, rx) :
            /\ trace' = Append(trace, WaitEvent(pat, ONE_SECOND, rx, out))
            /\ devPend' = NoPend
            /\ rx' = WaitRest(pat, rx, out)
            /\ IF out = "match" THEN SetModeOk ELSE Return(WaitError(out))
    /\ UNCHANGED <<op, brk, hostBaud, devBaud, baud0, dev0, data>>

\* the wait_for of set_mode and the test of result[1]
SetModeWait ==
    /\ pc = "sm_wait"
    /\ LET pat == PatMode(to_be_bytes(ModeArg))
       IN  \E out \in WaitOutcomes(pat, rx) :
            /\ trace' = Append(trace, WaitEvent(pat, ONE_SECOND, rx, out))
            /\ devPend' = NoPend
            /\ rx' = WaitRest(pat, rx, out)
            /\ IF out = "match"
                   THEN LET result == Search(pat, rx).groups
                        IN  IF result[2] = S_error
                                THEN Return(BadMode(result[1]))
                                ELSE SetModeOk
                   ELSE Return(WaitError(out))
    /\ UNCHANGED <<op, brk, hostBaud, devBaud, baud0, dev0, data>>

----------------------------------------------------------------------------
(* set_speed, after set_mode(BAUD) *)

\* self.uart.write(&symbol)?
SetSpeedWriteSymbol ==
    /\ pc = "ss_write"
    /\ \E ok \in BOOLEAN :
        /\ trace' = Append(trace, Event("write", SymbolOf(op.num), OutOf(ok)))
        /\ IF ok THEN /\ pc' = "ss_wait" /\ res' = res
                      /\ devPend' = [k |-> "sym", b |-> SymbolOf(op.num)]
                 ELSE Return(IoError) /\ devPend' = devPend
    /\ UNCHANGED <<op, brk, hostBaud, devBaud, rx, baud0, dev0, data>>

\* set_speed reporting the status word instead of result[0]
SetSpeedWait_StatusPayload ==
    /\ pc = "ss_wait"
    /\ \E out \in WaitOutcomes(PatStatus, rx) :
        /\ trace' = Append(trace, WaitEvent(PatStatus, ONE_SECOND, rx, out))
        /\ devPend' = NoPend
        /\ rx' = WaitRest(PatStatus, rx, out)
        /\ IF out = "match"
               THEN LET result == Search(PatStatus, rx).groups
                    IN  IF result[2] = S_error
                            THEN Return(BadMode(result[2]))
                            ELSE pc' = "ss_baud" /\ res' = res
               ELSE Return(WaitError(out))
    /\ UNCHANGED <<op, brk, hostBaud, devBaud, baud0, dev0, data>>

\* set_speed without the test of result[1]
SetSpeedWait_IgnoresError ==
    /\ pc = "ss_wait"
    /\ \E out \in WaitOutcomes(PatStatus, rx) :
        /\ trace' = Append(trace, WaitEvent(PatStatus, ONE_SECOND, rx, out))
        /\ devPend' = NoPend
        /\ rx' = WaitRest(PatStatus, rx, out)
        /\ IF out = "match" THEN pc' = "ss_baud" /\ res' = res
                            ELSE Return(WaitError(out))
    /\ UNCHANGED <<op, brk, hostBaud, devBaud, baud0, dev0, data>>

\* the wait_for of set_speed and the test of result[1]
SetSpeedWait ==
    /\ pc = "ss_wait"
    /\ \E out \in WaitOutcomes(PatStatus, rx) :
        /\ trace' = Append(trace, WaitEvent(PatStatus, ONE_SECOND, rx, out))
        /\ devPend' = NoPend
        /\ rx' = WaitRest(PatStatus, rx, out)
        /\ IF out = "match"
               THEN LET result == Search(PatStatus, rx).groups
                    IN  IF result[2] = S_error
                            THEN Return(BadMode(result[1]))
                            ELSE pc' = "ss_baud" /\ res' = res
               ELSE Return(WaitError(out))
    /\ UNCHANGED <<op, brk, hostBaud, devBaud, baud0, dev0, data>>

\* self.uart.set_baudrate(baud)?; Ok(())
SetSpeedSetBaud ==
    /\ pc = "ss_baud"
    /\ \E ok \in BOOLEAN :
        /\ trace' = Append(trace, Event("set_baudrate", <<op.num>>, OutOf(ok)))
        /\ IF ok THEN hostBaud' = op.num /\ Return(Ok)
                 ELSE hostBaud' = hostBaud /\ Return(IoError)
    /\ UNCHANGED <<op, brk, devBaud, devPend, rx, baud0, dev0, data>>

----------------------------------------------------------------------------
(* enter *)

\* enter resetting the target whatever reset_target is
EnterSetBreak_AlwaysReset ==
    /\ pc = "e_break"
    /\ \E ok \in BOOLEAN :
        /\ trace' = Append(trace, Event("set_break", <<1>>, OutOf(ok)))
        /\ IF ok THEN /\ brk' = TRUE
                      /\ devPend' = [k |-> "break", b |-> <<>>]
                      /\ pc' = "e_reset"
                      /\ res' = res
                 ELSE /\ brk' = brk
                      /\ devPend' = devPend
                      /\ Return(IoError)
    /\ UNCHANGED <<op, hostBaud, devBaud, rx, baud0, dev0, data>>

\* self.uart.set_break(true)?
EnterSetBreak ==
    /\ pc = "e_break"
    /\ \E ok \in BOOLEAN :
        /\ trace' = Append(trace, Event("set_break", <<1>>, OutOf(ok)))
        /\ IF ok THEN /\ brk' = TRUE
                      /\ devPend' = [k |-> "break", b |-> <<>>]
                      /\ pc' = IF op.flag THEN "e_reset" ELSE "e_banner"
                      /\ res' = res
                 ELSE /\ brk' = brk
                      /\ devPend' = devPend
                      /\ Return(IoError)
    /\ UNCHANGED <<op, hostBaud, devBaud, rx, baud0, dev0, data>>

\* transport.reset_target(self.reset_delay, /*clear_uart=*/ true)?
EnterReset ==
    /\ pc = "e_reset"
    /\ \E ok \in BOOLEAN :
        /\ trace' = Append(trace, Event("reset_target", <<reset_delay, 1>>, OutOf(ok)))
        /\ IF ok THEN /\ rx' = <<>>
                      /\ devPend' = [k |-> "break", b |-> <<>>]
                      /\ pc' = "e_banner"
                      /\ res' = res
                 ELSE /\ rx' = rx
                      /\ devPend' = devPend
                      /\ Return(IoError)
    /\ UNCHANGED <<op, brk, hostBaud, devBaud, baud0, dev0, data>>

\* enter starting over from set_break(true) after the banner wait timed out
EnterWaitBanner_RetriesEntry ==
    /\ pc = "e_banner"
    /\ \E out \in WaitOutcomes(PatBanner, rx) :
        /\ devPend' = NoPend
        /\ rx' = WaitRest(PatBanner, rx, out)
        /\ IF out = "match"
              THEN /\ trace' = Append(trace, WaitEvent(PatBanner, enter_delay, rx, out))
                   /\ pc' = "e_unbreak" /\ res' = res
              ELSE IF out = "timeout"
              THEN trace' = <<>> /\ pc' = "e_break" /\ res' = res
              ELSE /\ trace' = Append(trace, WaitEvent(PatBanner, enter_delay, rx, out))
                   /\ Return(WaitError(out))
    /\ UNCHANGED <<op, brk, hostBaud, devBaud, baud0, dev0, data>>

\* UartConsole::wait_for(uart, r"rescue:.*\r\n", self.enter_delay)?
EnterWaitBanner ==
    /\ pc = "e_banner"
    /\ \E out \in WaitOutcomes(PatBanner, rx) :
        /\ trace' = Append(trace, WaitEvent(PatBanner, enter_delay, rx, out))
        /\ devPend' = NoPend
        /\ rx' = WaitRest(PatBanner, rx, out)
        /\ IF out = "match" THEN pc' = "e_unbreak" /\ res' = res
                            ELSE Return(WaitError(out))
    /\ UNCHANGED <<op, brk, hostBaud, devBaud, baud0, dev0, data>>

\* self.uart.set_break(false)?
EnterClearBreak ==
    /\ pc = "e_unbreak"
    /\ \E ok \in BOOLEAN :
        /\ trace' = Append(trace, Event("set_break", <<0>>, OutOf(ok)))
        /\ IF ok THEN brk' = FALSE /\ pc' = "e_ack" /\ res' = res
                 ELSE brk' = brk /\ Return(IoError)
    /\ UNCHANGED <<op, hostBaud, devBaud, devPend, rx, baud0, dev0, data>>

\* enter propagating the failure of the acknowledgement wait with `?`
EnterWaitAck_Propagates ==
    /\ pc = "e_ack"
    /\ \E out \in WaitOutcomes(PatStatus, rx) :
        /\ trace' = Append(trace, WaitEvent(PatStatus, ONE_SECOND, rx, out))
        /\ devPend' = NoPend
        /\ rx' = WaitRest(PatStatus, rx, out)
        /\ IF out = "match" THEN Return(Ok) ELSE Return(WaitError(out))
    /\ UNCHANGED <<op, brk, hostBaud, devBaud, baud0, dev0, data>>

\* let _ = UartConsole::wait_for(uart, r"(ok|error):.*\r\n", ONE_SECOND); Ok(())
EnterWaitAck ==
    /\ pc = "e_ack"
    /\ \E out \in WaitOutcomes(PatStatus, rx) :
        /\ trace' = Append(trace, WaitEvent(PatStatus, ONE_SECOND, rx, out))
        /\ devPend' = NoPend
        /\ rx' = WaitRest(PatStatus, rx, out)
        /\ Return(Ok)
    /\ UNCHANGED <<op, brk, hostBaud, devBaud, baud0, dev0, data>>

----------------------------------------------------------------------------
(* send and recv: the bulk transfer is the codec's, called once *)

\* Ok(data) of recv
OkData(d) == [kind |-> "Ok", payload |-> d]

CallSend(payload) ==
    /\ pc = "idle"
    /\ op' = [name |-> "send", flag |-> FALSE, num |-> 0]
    /\ pc' = "x_send"
    /\ trace' = <<>>
    /\ res' = NoResult
    /\ baud0' = hostBaud
    /\ dev0' = devBaud
    /\ data' = payload
    /\ UNCHANGED <<brk, hostBaud, devBaud, devPend, rx>>

\* let mut data = Vec::new(); let xm = Xmodem::new()
CallRecv == Begin("recv", FALSE, 0, "x_recv")

\* let xm = Xmodem::new(); xm.send(&*self.uart, data)?; Ok(())
\* The codec owns the line during the call: it may read what was pending.
XmodemSend ==
    /\ pc = "x_send"
    /\ \E ok \in BOOLEAN :
        /\ trace' = Append(trace, Event("xmodem_send", data, OutOf(ok)))
        /\ IF ok THEN Return(Ok) ELSE Return(IoError)
    /\ rx' \in {rx, <<>>}
    /\ UNCHANGED <<op, brk, hostBaud, devBaud, devPend, baud0, dev0, data>>

\* xm.receive(&*self.uart, &mut data)?; Ok(data)
\* The codec fills the buffer with what it received; on failure the buffer
\* is dropped with the error.
XmodemReceive ==
    /\ pc = "x_recv"
    /\ \E ok \in BOOLEAN, got \in Payloads :
        /\ trace' = Append(trace, Event("xmodem_receive", got, OutOf(ok)))
        /\ data' = got
        /\ IF ok THEN Return(OkData(got)) ELSE Return(IoError)
    /\ rx' \in {rx, <<>>}
    /\ UNCHANGED <<op, brk, hostBaud, devBaud, devPend, baud0, dev0>>

----------------------------------------------------------------------------
(* The device *)

CRLF == <<CR, LF>>
StatusLine(st, msg) == st \o <<Colon>> \o msg \o CRLF
Statuses == {S_ok, S_error}

\* the rate a baud symbol stands for on the device
RateOf(sym) == CHOOSE r \in SupportedRates : SymbolOf(r) = sym

\* what the device may send in answer to what it received
Answers ==
    CASE devPend.k = "break" ->
            {S_rescue \o CRLF} \cup
            {S_rescue \o CRLF \o StatusLine(st, <<>>) : st \in Statuses}
      [] devPend.k = "mode" ->
            {S_mode \o t \o CRLF \o StatusLine(st, msg) :
                t \in {devPend.b, to_be_bytes(BAUD)}, st \in Statuses, msg \in Msgs}
      [] devPend.k = "sym" ->
            {StatusLine(st, msg) : st \in Statuses, msg \in Msgs}
      [] OTHER -> {}

\* The device answers while the host waits, or never; the answer reaches the
\* host or is lost on the line.
\* The device switches its rate when it acknowledges a baud symbol with ok.
DeviceRespond ==
    /\ devPend.k # "none"
    /\ pc \in {"e_banner", "e_ack", "sm_wait", "ss_wait"}
    /\ \E a \in Answers, delivered \in BOOLEAN :
        /\ Len(rx) + Len(a) <= MaxRx
        /\ rx' = IF delivered THEN rx \o a ELSE rx
        /\ devBaud' = IF devPend.k = "sym" /\ LitAt(a, 1, S_ok)
                          THEN RateOf(devPend.b) ELSE devBaud
    /\ devPend' = NoPend
    /\ UNCHANGED <<pc, op, brk, hostBaud, trace, res, baud0, dev0, data>>

----------------------------------------------------------------------------

Next ==
    \/ \E reset_target \in BOOLEAN : CallEnter(reset_target)
    \/ \E mode \in Tags : CallSetMode(mode)
    \/ \E baud \in Rates : CallSetSpeed(baud)
    \/ CallWait
    \/ CallReboot
    \/ \E payload \in Payloads : CallSend(payload)
    \/ CallRecv
    \/ EnterSetBreak
    \/ EnterReset
    \/ EnterWaitBanner
    \/ EnterClearBreak
    \/ EnterWaitAck
    \/ SetModeWriteTag
    \/ SetModeWriteEnter
    \/ SetModeWait
    \/ SetSpeedWriteSymbol
    \/ SetSpeedWait
    \/ SetSpeedSetBaud
    \/ XmodemSend
    \/ XmodemReceive
    \/ DeviceRespond

Spec == Init /\ [][Next]_vars

\* The steps of a running operation: each call it makes returns (a wait at
\* its deadline at the latest), so a running operation always takes its
\* next step.
HostStep ==
    \/ EnterSetBreak
    \/ EnterReset
    \/ EnterWaitBanner
    \/ EnterClearBreak
    \/ EnterWaitAck
    \/ SetModeWriteTag
    \/ SetModeWriteEnter
    \/ SetModeWait
    \/ SetSpeedWriteSymbol
    \/ SetSpeedWait
    \/ SetSpeedSetBaud
    \/ XmodemSend
    \/ XmodemReceive

FairSpec == Spec /\ WF_vars(HostStep)

----------------------------------------------------------------------------
(* Reading the trace of the running operation *)

IsWait(e, k) == e.ev = "wait_for" /\ e.pat.k = k
Matched(e, st) == e.out = "match" /\ e.groups[2] = st
WroteOk(e) == e.ev = "write" /\ e.out = "ok"

\* the bytes written by the first n calls of the operation, in order
RECURSIVE WrittenUpTo(_)
WrittenUpTo(n) ==
    IF n = 0 THEN <<>>
    ELSE WrittenUpTo(n - 1) \o (IF WroteOk(trace[n]) THEN trace[n].arg ELSE <<>>)
Written == WrittenUpTo(Len(trace))

Calls(ev) == {i \in DOMAIN trace : trace[i].ev = ev}
Returned == pc = "idle" /\ op.name # "none"
IsPrefix(s, t) == Len(s) <= Len(t) /\ s = SubSeq(t, 1, Len(s))

\* both acknowledgements of set_speed came with status ok: the response to
\* the BAUD mode command, then the baud symbol written, then its response
BothAcksOkBefore(n) ==
    \E j, k, l \in 1..(n - 1) :
        /\ j < k /\ k < l
        /\ IsWait(trace[j], "mode") /\ trace[j].pat.tag = <<66, 65, 85, 68>>
        /\ Matched(trace[j], S_ok)
        /\ WroteOk(trace[k]) /\ Len(trace[k].arg) = 4
        /\ IsWait(trace[l], "status") /\ Matched(trace[l], S_ok)

----------------------------------------------------------------------------
(* Claims *)

\* C1: in set_speed the host baud rate is changed only after the BAUD mode
\* command and then the written baud symbol were both acknowledged with
\* status ok; it is then set once, to the requested rate.  In every other
\* outcome set_baudrate is never called and the host rate is the rate before
\* the call.
C1_BaudOnlyAfterBothAcks ==
    /\ \A i \in Calls("set_baudrate") :
        /\ op.name = "set_speed"
        /\ trace[i].arg = <<op.num>>
        /\ BothAcksOkBefore(i)
    /\ Cardinality(Calls("set_baudrate")) <= 1
    /\ (Returned /\ op.name = "set_speed" /\ BothAcksOkBefore(Len(trace) + 1))
        => Cardinality(Calls("set_baudrate")) = 1
    /\ op.name = "set_speed" =>
        IF \E i \in Calls("set_baudrate") : trace[i].out = "ok"
            THEN hostBaud = op.num
            ELSE hostBaud = baud0

C1_Witness ==
    /\ Returned /\ op.name = "set_speed" /\ res = Ok
    /\ hostBaud = op.num /\ hostBaud # baud0

\* C2: an unsupported rate makes set_speed return BadMode with no transport
\* action at all: nothing written, nothing waited for, host rate unchanged.
C2_UnsupportedRateDoesNothing ==
    (op.name = "set_speed" /\ op.num \notin {115200, 230400, 460800, 921600, 1333333, 1500000})
        => /\ pc = "idle"
           /\ res.kind = "BadMode"
           /\ trace = <<>>
           /\ hostBaud = baud0

C2_Witness ==
    /\ Returned /\ op.name = "set_speed" /\ op.num = 9600
    /\ res.kind = "BadMode" /\ hostBaud # 115200

\* C3: when set_mode starts to wait for the response it has written exactly
\* 5 bytes, the 4 bytes of the tag in big-endian order and a carriage
\* return, and it writes nothing more whatever the outcome of the wait.
C3_FiveBytes(w) ==
    /\ Len(w) = 5
    /\ \A k \in 1..4 : w[k] \in 0..255
    /\ w[1] * 16777216 + w[2] * 65536 + w[3] * 256 + w[4] = ModeArg
    /\ w[5] = 13

C3_SetModeWritesFiveBytes ==
    /\ pc = "sm_wait" => C3_FiveBytes(Written)
    /\ \A i \in DOMAIN trace :
        IsWait(trace[i], "mode") =>
            /\ C3_FiveBytes(WrittenUpTo(i))
            /\ Cardinality({j \in 1..i : trace[j].ev = "write"}) = 2
    /\ (Returned /\ op.name \in {"set_mode", "wait", "reboot"}
            /\ res.kind \in {"Ok", "BadMode", "Timeout"})
        => C3_FiveBytes(Written)

C3_Witness ==
    /\ Returned /\ op.name = "set_mode" /\ op.num = REBOOT
    /\ res.kind = "BadMode"
    /\ Written = <<82, 69, 66, 79, 13>>

\* C4: set_mode(tag) succeeds iff a response 'mode: <tag>' with status ok was
\* received in time, fails with BadMode iff that response came with status
\* error, and fails with a timeout, which is not BadMode, when no matching
\* response came; a response naming another tag never makes it succeed.
C4_Names(e, tag) == LitAt(e.groups[1], 1, S_mode \o tag \o <<13, 10>>)

C4_Response(st) ==
    \E i \in DOMAIN trace :
        /\ IsWait(trace[i], "mode")
        /\ trace[i].out = "match"
        /\ C4_Names(trace[i], to_be_bytes(op.num))
        /\ trace[i].groups[2] = st

C4_SetModeOutcomes ==
    (Returned /\ op.name = "set_mode") =>
        /\ res.kind = "Ok" <=> C4_Response(S_ok)
        /\ res.kind = "BadMode" <=> C4_Response(S_error)
        /\ (\E i \in DOMAIN trace : IsWait(trace[i], "mode") /\ trace[i].out = "timeout")
            => res.kind = "Timeout"

\* the last call of the operation was a wait that the device answered with
\* an error status
C5_DeviceError ==
    /\ Returned /\ res.kind = "BadMode" /\ trace # <<>>
    /\ trace[Len(trace)].ev = "wait_for"
    /\ Matched(trace[Len(trace)], S_error)

\* the text between 'error:' and the line end in the matched response
C5_Diagnostic ==
    LET e == trace[Len(trace)]
        whole == e.groups[1]
    IN  IF e.pat.k = "mode" THEN SubSeq(whole, 19, Len(whole) - 2)
                            ELSE SubSeq(whole, 7, Len(whole) - 2)

\* C5 as stated: on 'error:<msg>' the payload of BadMode is exactly <msg>.
C5_PayloadIsMessage == C5_DeviceError => res.payload = C5_Diagnostic

\* C5 as amended: on 'error:<msg>' the payload of BadMode is the whole matched
\* response, 'error:<msg>\r\n' after a baud symbol and
\* 'mode: <tag>\r\nerror:<msg>\r\n' after a mode command, <msg> verbatim in it.
C5_PayloadIsWholeResponse ==
    C5_DeviceError =>
        LET e == trace[Len(trace)]
            echo == IF e.pat.k = "mode" THEN SubSeq(e.groups[1], 1, 12) ELSE <<>>
        IN  /\ res.payload = e.groups[1]
            /\ res.payload = echo \o S_error \o <<58>> \o C5_Diagnostic \o <<13, 10>>
            /\ e.pat.k = "mode" => LitAt(echo, 1, S_mode) /\ SubSeq(echo, 11, 12) = <<13, 10>>
            /\ C5_Diagnostic \in Msgs

C5_Witness ==
    /\ C5_DeviceError /\ op.name = "set_speed"
    /\ trace[Len(trace)].pat.k = "status"
    /\ res.payload = <<101, 114, 114, 111, 114, 58, 98, 97, 100, 13, 10>>

\* C6: when no banner arrives within the entry window, enter fails with
\* Timeout and the break condition is cleared when enter returns.
C6_BreakClearedAfterBannerTimeout ==
    (Returned /\ op.name = "enter" /\ trace # <<>>
        /\ IsWait(trace[Len(trace)], "banner") /\ trace[Len(trace)].out = "timeout")
        => res.kind = "Timeout" /\ brk = FALSE

\* C7: enter makes its calls in this order: set_break(true); reset_target
\* (reset delay, clear_uart) once iff reset_target, with break asserted; the
\* banner wait; set_break(false) after the banner matched; the
\* acknowledgement wait after break is deasserted.  A failed call is the
\* last one.
C7_Label(e) ==
    CASE e.ev = "set_break" /\ e.arg = <<1>> -> "break_on"
      [] e.ev = "set_break" /\ e.arg = <<0>> -> "break_off"
      [] e.ev = "reset_target" /\ e.arg = <<50, 1>> -> "reset"
      [] IsWait(e, "banner") /\ e.arg = <<5000>> -> "banner"
      [] IsWait(e, "status") /\ e.arg = <<1000>> -> "ack"
      [] OTHER -> "other"

C7_Steps ==
    <<"break_on">> \o (IF op.flag THEN <<"reset">> ELSE <<>>)
        \o <<"banner", "break_off", "ack">>

C7_Succeeded(e) == e.out \in {"ok", "match"}

C7_EnterOrder ==
    op.name = "enter" =>
        /\ Len(trace) <= Len(C7_Steps)
        /\ \A i \in DOMAIN trace : C7_Label(trace[i]) = C7_Steps[i]
        /\ \A i \in DOMAIN trace :
            (i < Len(trace) /\ C7_Label(trace[i]) # "ack") => C7_Succeeded(trace[i])
        /\ pc \in {"e_reset", "e_banner", "e_unbreak"} => brk
        /\ pc = "e_ack" => ~brk
        /\ (trace # <<>> /\ ~C7_Succeeded(trace[Len(trace)])
                /\ C7_Label(trace[Len(trace)]) # "ack")
            => pc = "idle" /\ res.kind \in {"Io", "Timeout"}
        /\ (Returned /\ res = Ok) => Len(trace) = Len(C7_Steps)
        /\ Cardinality(Calls("reset_target")) <= (IF op.flag THEN 1 ELSE 0)

C7_Witness ==
    /\ Returned /\ op.name = "enter" /\ op.flag /\ res = Ok
    /\ Len(trace) = 5 /\ trace[2].ev = "reset_target"

\* C8: once the banner has matched and break is deasserted, enter returns
\* Ok whatever the acknowledgement wait gives (timeout, failed read, an ok
\* line, an error line), and it waits once, for one line.
C8_AckWaits == {i \in DOMAIN trace : IsWait(trace[i], "status")}

C8_AckOutcomeIgnored ==
    (Returned /\ op.name = "enter"
        /\ \E i \in Calls("set_break") : trace[i].arg = <<0>> /\ trace[i].out = "ok")
        => /\ res = Ok
           /\ Cardinality(C8_AckWaits) = 1
           /\ \A i \in C8_AckWaits :
                /\ i = Len(trace)
                /\ trace[i].out \in {"match", "timeout", "io"}
                /\ trace[i].out = "match" =>
                    Cardinality({k \in DOMAIN trace[i].groups[1] :
                                    trace[i].groups[1][k] = 10}) = 1

C8_Witness ==
    /\ Returned /\ op.name = "enter" /\ res = Ok
    /\ \E i \in C8_AckWaits : Matched(trace[i], S_error)

\* C9: for a supported rate set_speed writes 'BAUD', a carriage return and,
\* after the ok response, the 4 bytes of the symbol of the rate and nothing
\* more; the symbols differ from each other and from REBO, BAUD and WAIT;
\* on ok the host rate is the requested rate.
C9_Symbol ==
    [r \in {115200, 230400, 460800, 921600, 1333333, 1500000} |->
        CASE r = 115200 -> <<49, 49, 53, 75>>
          [] r = 230400 -> <<50, 51, 48, 75>>
          [] r = 460800 -> <<52, 54, 48, 75>>
          [] r = 921600 -> <<57, 50, 49, 75>>
          [] r = 1333333 -> <<49, 77, 51, 51>>
          [] r = 1500000 -> <<49, 77, 53, 48>>]

C9_SymbolAfterBaudCommand ==
    /\ (op.name = "set_speed" /\ op.num \in DOMAIN C9_Symbol) =>
        /\ IsPrefix(Written, <<66, 65, 85, 68, 13>> \o C9_Symbol[op.num])
        /\ \A i \in DOMAIN trace :
            (WroteOk(trace[i]) /\ WrittenUpTo(i) # WrittenUpTo(i - 1)
                /\ Len(WrittenUpTo(i)) > 5)
            => /\ trace[i].arg = C9_Symbol[op.num]
               /\ IsWait(trace[i - 1], "mode") /\ Matched(trace[i - 1], S_ok)
        /\ pc \in {"ss_wait", "ss_baud"}
            => Written = <<66, 65, 85, 68, 13>> \o C9_Symbol[op.num]
        /\ (Returned /\ res = Ok)
            => /\ hostBaud = op.num
               /\ Written = <<66, 65, 85, 68, 13>> \o C9_Symbol[op.num]
    /\ \A r1, r2 \in SupportedRates : r1 # r2 => SymbolOf(r1) # SymbolOf(r2)
    /\ \A r \in SupportedRates :
        /\ Len(SymbolOf(r)) = 4
        /\ from_be_bytes(SymbolOf(r)) \notin {REBOOT, BAUD, WAIT}

C9_Witness ==
    /\ Returned /\ op.name = "set_speed" /\ op.num = 1333333 /\ res = Ok
    /\ hostBaud = 1333333
    /\ Written = <<66, 65, 85, 68, 13, 49, 77, 51, 51>>

\* C10 as stated: when host and device were at the same rate at the call,
\* they are at the same rate after set_speed returns, whatever the outcome.
C10_RatesEqualAfterSetSpeed ==
    (Returned /\ op.name = "set_speed" /\ baud0 = dev0) => hostBaud = devBaud

\* C10 as amended: from equal rates, after set_speed returns Ok both sides
\* are at the requested rate; after BadMode, or a failure before the baud
\* symbol was written, both are at the old rate; otherwise (the
\* acknowledgement of the symbol lost or unread, or set_baudrate failed) the
\* host is at the old rate and the device at the old or the requested one.
C10_SymbolWritten == Len(Written) > 5

C10_RatesAfterSetSpeed ==
    (Returned /\ op.name = "set_speed" /\ baud0 = dev0) =>
        /\ res = Ok => hostBaud = op.num /\ devBaud = op.num
        /\ (res.kind = "BadMode" \/ ~C10_SymbolWritten)
            => hostBaud = baud0 /\ devBaud = baud0
        /\ (res.kind \in {"Timeout", "Io"} /\ C10_SymbolWritten)
            => hostBaud = baud0 /\ devBaud \in {baud0, op.num}
        /\ res.kind \in {"Ok", "BadMode", "Timeout", "Io"}

C10_Witness ==
    /\ Returned /\ op.name = "set_speed" /\ baud0 = dev0
    /\ res = Timeout /\ C10_SymbolWritten
    /\ hostBaud = baud0 /\ devBaud = op.num /\ devBaud # hostBaud

\* C11: the protocol is request/response: no command is written while the
\* response to an earlier command of the operation is awaited, the baud
\* symbol is written only after the response to the BAUD command was
\* received, and every written command has had its one response wait when
\* the operation returns.
C11_CommandsUpTo(n) ==
    Cardinality({i \in 1..n :
        /\ WroteOk(trace[i])
        /\ \/ trace[i].arg = <<13>>
           \/ \E j \in 1..(i - 1) : trace[j].ev = "wait_for"})

C11_WaitsUpTo(n) == Cardinality({i \in 1..n : trace[i].ev = "wait_for"})

C11_RequestResponse ==
    op.name \in {"set_mode", "wait", "reboot", "set_speed"} =>
        /\ \A i \in DOMAIN trace :
            trace[i].ev = "write" => C11_CommandsUpTo(i - 1) = C11_WaitsUpTo(i - 1)
        /\ \A i \in DOMAIN trace :
            (trace[i].ev = "write" /\ i > 2) =>
                \E j \in 1..(i - 1) :
                    IsWait(trace[j], "mode") /\ trace[j].out = "match"
        /\ Returned => C11_CommandsUpTo(Len(trace)) = C11_WaitsUpTo(Len(trace))

\* C12: no call is made twice within an operation, and the first failure
\* (an error return, a timeout, an error status of the device) is the last
\* call of the operation and is what the operation returns; the one
\* exception is the acknowledgement wait of enter, whose outcome is dropped.
C12_Failed(e) ==
    \/ e.out \in {"err", "timeout", "io"}
    \/ e.ev = "wait_for" /\ e.out = "match" /\ e.groups[2] = S_error

C12_FailureOf(e) ==
    CASE e.ev = "from_utf8" -> Utf8Error
      [] e.ev # "from_utf8" /\ e.out = "timeout" -> Timeout
      [] e.ev # "from_utf8" /\ e.out = "match" -> BadMode(e.groups[1])
      [] OTHER -> IoError

C12_Swallowed(i) == op.name = "enter" /\ IsWait(trace[i], "status")

C12_SameCall(e, f) == e.ev = f.ev /\ e.arg = f.arg /\ e.pat = f.pat

C12_NoRetry ==
    /\ \A i, j \in DOMAIN trace : i < j => ~C12_SameCall(trace[i], trace[j])
    /\ \A i \in DOMAIN trace :
        (C12_Failed(trace[i]) /\ ~C12_Swallowed(i)) =>
            /\ i = Len(trace)
            /\ pc = "idle"
            /\ res = C12_FailureOf(trace[i])
    /\ (Returned /\ res.kind # "Ok") =>
        \/ trace = <<>> /\ op.name = "set_speed" /\ res.kind = "BadMode"
        \/ /\ trace # <<>>
           /\ C12_Failed(trace[Len(trace)])
           /\ ~C12_Swallowed(Len(trace))
    /\ \A i \in DOMAIN trace : C12_Swallowed(i) => i = Len(trace) /\ res = Ok

C12_Witness ==
    /\ Returned /\ op.name = "set_speed" /\ res = Timeout
    /\ Len(trace) = 6
    /\ IsWait(trace[6], "status") /\ trace[6].out = "timeout"

\* C13: wait() runs as set_mode(WAIT) and reboot() as set_mode(REBOOT):
\* the same bytes written ('WAIT' or 'REBO', then a carriage return, and no
\* payload), the same one wait for 'mode: <tag>' within 1 s, and the same
\* result for the same outcome of the calls.
C13_Calls(tag) ==
    << [ev |-> "write", arg |-> tag],
       [ev |-> "write", arg |-> <<13>>],
       [ev |-> "from_utf8", arg |-> tag],
       [ev |-> "wait_for", arg |-> <<1000>>] >>

\* what set_mode gives for the outcome of its last call
C13_Result ==
    LET e == trace[Len(trace)]
    IN  CASE e.ev = "wait_for" /\ e.out = "match" /\ e.groups[2] = S_ok -> Ok
          [] e.ev = "wait_for" /\ e.out = "match" /\ e.groups[2] = S_error
                -> BadMode(e.groups[1])
          [] e.ev = "wait_for" /\ e.out = "timeout" -> Timeout
          [] OTHER -> IoError

C13_RunsAs(tag) ==
    /\ Len(trace) <= 4
    /\ \A i \in DOMAIN trace :
        /\ trace[i].ev = C13_Calls(tag)[i].ev
        /\ trace[i].arg = C13_Calls(tag)[i].arg
        /\ trace[i].ev = "wait_for" => trace[i].pat = [k |-> "mode", tag |-> tag]
        /\ i < Len(trace) => trace[i].out = "ok"
    /\ IsPrefix(Written, tag \o <<13>>)
    /\ Returned => res = C13_Result
    /\ (pc # "idle") =>
        pc = <<"sm_write", "sm_cr", "sm_cr", "sm_wait">>[Len(trace) + 1]

C13_WaitRebootAsSetMode ==
    /\ (op.name = "wait" \/ (op.name = "set_mode" /\ op.num = 1463896404))
        => C13_RunsAs(<<87, 65, 73, 84>>)
    /\ (op.name = "reboot" \/ (op.name = "set_mode" /\ op.num = 1380270671))
        => C13_RunsAs(<<82, 69, 66, 79>>)

C13_Witness ==
    /\ Returned /\ op.name = "reboot" /\ res.kind = "BadMode"
    /\ Written = <<82, 69, 66, 79, 13>>

\* C15: every operation terminates: a called operation eventually returns,
\* given that each transport, reset, wait and codec call returns.
C15_Terminates == (pc # "idle") ~> (pc = "idle")

C15_Witness ==
    /\ Returned /\ op.name = "enter" /\ res = Timeout
    /\ IsWait(trace[Len(trace)], "banner")

\* C16: when the BAUD mode command inside set_speed fails (a failed write
\* of the tag or of the carriage return, a timeout or failed read of the
\* response, or an error response of the device), set_speed returns that
\* same failure and stops there: the baud symbol is not written, no status
\* response is waited for, set_baudrate is not called and the host baud
\* rate is what it was at the call.
C16_InSetMode(e) ==
    \/ e.ev = "write" /\ e.arg \in {to_be_bytes(BAUD), <<CR>>}
    \/ IsWait(e, "mode")

C16_ModeCommandFailed(i) == C16_InSetMode(trace[i]) /\ C12_Failed(trace[i])

C16_SetSpeedStopsAtFailedMode ==
    \A i \in DOMAIN trace :
        (op.name = "set_speed" /\ C16_ModeCommandFailed(i)) =>
            /\ Returned
            /\ res = C12_FailureOf(trace[i])
            /\ \A j \in DOMAIN trace :
                /\ ~(trace[j].ev = "write" /\ trace[j].arg = SymbolOf(op.num))
                /\ ~IsWait(trace[j], "status")
                /\ trace[j].ev # "set_baudrate"
            /\ IsPrefix(Written, to_be_bytes(BAUD) \o <<CR>>)
            /\ hostBaud = baud0

C16_Witness ==
    /\ Returned /\ op.name = "set_speed" /\ res.kind = "BadMode"
    /\ Len(trace) = 4
    /\ IsWait(trace[4], "mode") /\ Matched(trace[4], S_error)
    /\ Written = to_be_bytes(BAUD) \o <<CR>>

\* C17: in every step of every sequence of operations, the break signal
\* changes only inside enter and the host baud rate only inside a set_speed
\* whose BAUD mode command and baud symbol were both acknowledged with ok;
\* so set_mode, wait, reboot, send and recv change neither, set_speed does
\* not change the break signal and enter does not change the host baud
\* rate.  reset_target is called only by enter with reset_target true.
C17_FrameStep ==
    /\ brk' # brk => op.name = "enter" /\ op' = op
    /\ hostBaud' # hostBaud =>
        /\ op.name = "set_speed" /\ op' = op
        /\ BothAcksOkBefore(Len(trace) + 1)
    /\ \A i \in DOMAIN trace' :
        trace'[i].ev = "reset_target" => op'.name = "enter" /\ op'.flag

C17_Frame == [][C17_FrameStep]_vars

C17_Witness ==
    /\ Returned /\ op.name = "send" /\ res = Ok
    /\ brk /\ hostBaud = 921600

\* C18: set_mode checks the tag only after sending it: whenever the tag is
\* checked with from_utf8, the 4 tag bytes (most significant first) and the
\* carriage return are already written, whatever the tag; the check fails
\* exactly for a tag that is not valid text, and then set_mode returns that
\* failure at once, having written the 5 bytes and waited for no response.
C18_Command == to_be_bytes(ModeArg) \o <<CR>>

C18_SentBeforeChecked ==
    \A i \in DOMAIN trace :
        trace[i].ev = "from_utf8" =>
            /\ WrittenUpTo(i - 1) = C18_Command
            /\ trace[i].arg = to_be_bytes(ModeArg)
            /\ (trace[i].out = "err") = ~from_utf8_ok(to_be_bytes(ModeArg))
            /\ trace[i].out = "err" =>
                /\ i = Len(trace)
                /\ Returned /\ res = Utf8Error
                /\ Written = C18_Command
                /\ Calls("wait_for") = {}

C18_Witness ==
    /\ Returned /\ op.name = "set_mode" /\ op.num = TagBadText
    /\ res = Utf8Error
    /\ Written = <<65, 65, 65, 255, 13>>
    /\ devPend = [k |-> "mode", b |-> <<65, 65, 65, 255>>]

====
